---------------------------- MODULE Spec2Model ----------------------------
(***************************************************************************)
(* Product service: the cache-aside listing handler (getAllProducts), the  *)
(* bulk CSV upsert handler (uploadProduct), the products table with its    *)
(* triggers, and the Redis cache (product:<id> keys and the all_product_ids *)
(* index set).                                                             *)
(***************************************************************************)
EXTENDS Integers, Sequences, FiniteSets, TLC

VARIABLES
    store,   \* committed rows of table products
    kv,      \* Redis string keys: id |-> entry stored under product:<id>
    idx,     \* Redis set all_product_ids
    ing,     \* the uploadProduct invocation in progress
    rd,      \* the getAllProducts invocation in progress
    tasks,   \* the detached populateCache goroutines that are running
    clock,   \* database time: the number of transactions begun
    gen      \* number of identifiers uuid.New() has handed out

vars == <<store, kv, idx, ing, rd, tasks, clock, gen>>

-----------------------------------------------------------------------------
(* Bounds of the model *)

\* data rows in one CSV payload (records after the header)
MaxRows == 2
\* data rows in one CSV payload of Spec, where invocations interleave
MaxBatch == 2
\* populateCache goroutines running at the same time
MaxTasks == 1

-----------------------------------------------------------------------------
(* Values *)

NULL == "NULL"

\* product names, with their rank under ORDER BY name ASC
Names == {"Gadget", "Widget"}
NameRank == [n \in Names |-> IF n = "Gadget" THEN 1 ELSE 2]

\* identifiers a CSV may supply: two UUIDs, one text that is no UUID, or none
CsvUUIDs == {"u1", "u2"}
NotUUID == "42"
\* identifiers uuid.New() returns, in the order it returns them
GenUUID == <<"g1", "g2", "g3", "g4", "g5", "g6">>

IsUUID(s) == s \in CsvUUIDs \/ \E i \in 1..Len(GenUUID) : GenUUID[i] = s

SeqRange(s) == {s[i] : i \in 1..Len(s)}

\* the float64 that is not a number, set apart from the prices, which are
\* counted in thousandths (float64) or hundredths (NUMERIC(10, 2)) from 0 up
NaN == -1

\* strconv.ParseFloat(s, 64): the value in thousandths, or an error; "NaN"
\* is accepted, as are "Inf" and hexadecimal floats
ParseFloat(s) ==
    CASE s = "9.99"   -> [err |-> FALSE, v |-> 9990]
      [] s = "19.999" -> [err |-> FALSE, v |-> 19999]
      [] s = "NaN"    -> [err |-> FALSE, v |-> NaN]
      [] OTHER        -> [err |-> TRUE,  v |-> 0]

\* strconv.Atoi(s)
Atoi(s) ==
    CASE s = "0"  -> [err |-> FALSE, v |-> 0]
      [] s = "5"  -> [err |-> FALSE, v |-> 5]
      [] s = "-1" -> [err |-> FALSE, v |-> -1]
      [] OTHER    -> [err |-> TRUE,  v |-> 0]

\* nullString: the empty string becomes SQL NULL
nullString(s) == IF s = "" THEN NULL ELSE s

\* a value stored in a NUMERIC(10, 2) column: hundredths, rounded half up;
\* the column takes NaN whatever its precision
Numeric2(thousandths) ==
    IF thousandths = NaN THEN NaN ELSE (thousandths + 5) \div 10

-----------------------------------------------------------------------------
(* Table products: the upsert statement and the triggers *)

\* mutant: the trigger is not installed
update_out_of_stock_status_Off(new) == new

\* trigger set_out_of_stock_on_qty_change (BEFORE INSERT OR UPDATE OF qty)
update_out_of_stock_status(new) == [new EXCEPT !.out_of_stock = (new.qty = 0)]

\* trigger update_products_updated_at (BEFORE UPDATE)
update_updated_at_column(new, now) == [new EXCEPT !.updated_at = now]

\* the row INSERT builds from the five supplied columns and the column defaults
InsertedRow(id, name, image, price, qty, now) ==
    update_out_of_stock_status(
        [id |-> id, name |-> name, image |-> image, price |-> Numeric2(price),
         qty |-> qty, out_of_stock |-> FALSE, created_at |-> now,
         updated_at |-> now])

\* mutant: ON CONFLICT (name) DO NOTHING
UpdatedRow_DoNothing(old, image, price, qty, now) == old

\* mutant: the conflicting row is replaced by a row inserted now
UpdatedRow_Recreated(old, image, price, qty, now) ==
    InsertedRow(old.id, old.name, image, price, qty, now)

\* ON CONFLICT (name) DO UPDATE SET ..., then the BEFORE UPDATE triggers
UpdatedRow(old, image, price, qty, now) ==
    update_out_of_stock_status(
        update_updated_at_column(
            [old EXCEPT !.image = image, !.price = Numeric2(price),
                        !.qty = qty, !.updated_at = now,
                        !.out_of_stock = (qty = 0)],
            now))

\* INSERT ... ON CONFLICT (name) DO UPDATE against the rows `table`:
\* the new rows, or an error when a constraint rejects the statement
Upsert(table, id, name, image, price, qty, now) ==
    IF ~IsUUID(id) THEN [err |-> TRUE, table |-> table]
    ELSE IF \E r \in table : r.name = name
    THEN LET old == CHOOSE r \in table : r.name = name
             new == UpdatedRow(old, image, price, qty, now)
         IN  IF new.qty < 0 THEN [err |-> TRUE, table |-> table]
             ELSE [err |-> FALSE, table |-> (table \ {old}) \cup {new}]
    ELSE LET new == InsertedRow(id, name, image, price, qty, now)
         IN  IF (\E r \in table : r.id = id) \/ new.qty < 0
             THEN [err |-> TRUE, table |-> table]
             ELSE [err |-> FALSE, table |-> table \cup {new}]

\* SELECT ... FROM products WHERE name = $1
SelectByName(table, name) == CHOOSE r \in table : r.name = name

\* json.Marshal of a models.Product: a float64 that is NaN is an unsupported
\* value; and json.Unmarshal of a cached string
Marshal(p) == [err |-> p.price = NaN, s |-> [kind |-> "json", p |-> p]]
Garbage == [kind |-> "garbage"]
Unmarshal(s) ==
    IF s.kind = "json" THEN [err |-> FALSE, p |-> s.p] ELSE [err |-> TRUE]


-----------------------------------------------------------------------------
(* Inputs of uploadProduct: CSV records as sequences of fields *)

\* image, price and qty columns of the well-formed rows
ValidFields ==
    {[image |-> "img.png", price |-> "9.99", qty |-> "0"],
     [image |-> "", price |-> "19.999", qty |-> "5"]}

\* well-formed records, without an id or with the id u1
ValidCsvRows ==
    {<<id, n, f.image, f.price, f.qty>> :
        id \in {"", "u1"}, n \in Names, f \in ValidFields}

\* unparsable price, unparsable qty, qty below zero, an id that is no UUID,
\* and a record of four fields
BadCsvRows ==
    {<<"", "Gadget", "", "abc", "5">>,
     <<"u1", "Widget", "img.png", "9.99", "x">>,
     <<"u2", "Gadget", "", "9.99", "-1">>,
     <<NotUUID, "Widget", "img.png", "9.99", "5">>,
     <<"u1", "Gadget", "img.png", "9.99">>}

\* a record whose price is the text NaN
NaNCsvRows == {<<"", "Widget", "", "NaN", "5">>}

CsvRows == ValidCsvRows \cup BadCsvRows \cup NaNCsvRows

Headers == {<<"id", "name", "image", "price", "qty">>,
            <<"id", "name", "image", "price">>}

SeqsUpTo(S, n) == UNION {[1..k -> S] : k \in 0..n}

\* the CSV files: nothing at all, or a header followed by up to MaxRows records
Payloads ==
    {<<>>} \cup {<<h>> \o d : h \in Headers, d \in SeqsUpTo(CsvRows, MaxRows)}

\* csv.Reader.ReadAll with FieldsPerRecord = 0: every record must have as many
\* fields as the first one
ReadAll(records) ==
    IF \A i \in 1..Len(records) : Len(records[i]) = Len(records[1])
    THEN [err |-> FALSE, records |-> records]
    ELSE [err |-> TRUE, records |-> <<>>]

-----------------------------------------------------------------------------
(* uploadProduct: handler *)

\* records: the CSV records the payload holds, before csv.Reader reads them
IdleIng ==
    [pc |-> "idle", records |-> <<>>, header |-> <<>>, nrec |-> 0,
     rows |-> <<>>, view |-> {},
     failed |-> FALSE, cur |-> <<>>, result |-> "", commitErr |-> "",
     store0 |-> {}, data |-> <<>>, log |-> <<>>, cacheErrs |-> 0, now |-> 0]

\* the bytes the handler parses: an S3 record whose object cannot be fetched
\* and an event with neither records nor csv_data end the invocation
CsvContent(kind, records, fetchOk) ==
    IF kind = "s3"
    THEN IF fetchOk THEN [err |-> FALSE, records |-> records]
                    ELSE [err |-> TRUE, records |-> <<>>]
    ELSE IF records = <<>> THEN [err |-> TRUE, records |-> <<>>]
                           ELSE [err |-> FALSE, records |-> records]

\* tx.ExecContext of the upsert: a transaction in which a statement has failed
\* rejects every later statement until it ends (lib/pq, PostgreSQL)
ExecUpsert(failed, table, id, name, image, price, qty, now) ==
    IF failed THEN [err |-> TRUE, table |-> table]
    ELSE Upsert(table, id, name, image, price, qty, now)

\* mutant: an identifier is generated whether or not the record carries one
ProcessRow_AlwaysGenerates(row, view, failed, g, now) ==
    LET skip(tag) == [tag |-> tag, view |-> view, failed |-> failed,
                      id |-> "", g |-> g]
    IN  IF Len(row) < 5 THEN skip("columns")
        ELSE IF ParseFloat(row[4]).err THEN skip("price")
        ELSE IF Atoi(row[5]).err THEN skip("qty")
        ELSE LET fresh == TRUE
                 productID == IF fresh THEN GenUUID[g + 1] ELSE row[1]
                 g2 == IF fresh THEN g + 1 ELSE g
                 up == ExecUpsert(failed, view, productID, row[2],
                                  nullString(row[3]), ParseFloat(row[4]).v,
                                  Atoi(row[5]).v, now)
             IN  IF up.err
                 THEN [tag |-> "db", view |-> view, failed |-> TRUE,
                       id |-> productID, g |-> g2]
                 ELSE [tag |-> "ok", view |-> up.table, failed |-> failed,
                       id |-> productID, g |-> g2]

\* one iteration of the row loop up to the re-fetch: what is logged, the
\* transaction's rows and state afterwards, and the identifier used
ProcessRow(row, view, failed, g, now) ==
    LET skip(tag) == [tag |-> tag, view |-> view, failed |-> failed,
                      id |-> "", g |-> g]
    IN  IF Len(row) < 5 THEN skip("columns")
        ELSE IF ParseFloat(row[4]).err THEN skip("price")
        ELSE IF Atoi(row[5]).err THEN skip("qty")
        ELSE LET fresh == row[1] = ""
                 productID == IF fresh THEN GenUUID[g + 1] ELSE row[1]
                 g2 == IF fresh THEN g + 1 ELSE g
                 up == ExecUpsert(failed, view, productID, row[2],
                                  nullString(row[3]), ParseFloat(row[4]).v,
                                  Atoi(row[5]).v, now)
             IN  IF up.err
                 THEN [tag |-> "db", view |-> view, failed |-> TRUE,
                       id |-> productID, g |-> g2]
                 ELSE [tag |-> "ok", view |-> up.table, failed |-> failed,
                       id |-> productID, g |-> g2]

\* lines 120-200 without the cache: the row loop over `rows`, from the
\* transaction's rows `view`
RECURSIVE RunRows(_, _, _, _, _)
RunRows(rows, view, failed, g, now) ==
    IF rows = <<>> THEN [view |-> view, failed |-> failed, g |-> g]
    ELSE LET out == ProcessRow(Head(rows), view, failed, g, now)
         IN  RunRows(Tail(rows), out.view, out.failed, out.g, now)

\* mutant: the header alone passes the check
EmptyCsv_OffByOne(records) == Len(records) < 1

\* line 107: no record, or the header alone
EmptyCsv(records) == Len(records) < 2

\* mutant: the first record is processed like the others
IngestStart_KeepsHeader(inputs) ==
    /\ ing.pc = "idle"
    /\ \E kind \in {"direct", "s3"}, records \in inputs, fetchOk, beginOk \in BOOLEAN :
        /\ kind = "direct" => fetchOk
        /\ gen + MaxRows <= Len(GenUUID)
        /\ LET content == CsvContent(kind, records, fetchOk)
               read == ReadAll(content.records)
               end(result) ==
                   /\ ing' = [IdleIng EXCEPT !.pc = "done", !.result = result,
                                  !.records = content.records,
                                  !.nrec = Len(read.records), !.store0 = store]
                   /\ UNCHANGED clock
           IN  IF content.err THEN end("InputError")
               ELSE IF read.err THEN end("ReadError")
               ELSE IF EmptyCsv(read.records) THEN end("EmptyInput")
               ELSE IF ~beginOk THEN end("IngestFailed")
               ELSE /\ ing' = [IdleIng EXCEPT
                                  !.pc = "row", !.records = content.records,
                                  !.header = Head(read.records),
                                  !.nrec = Len(read.records),
                                  !.rows = read.records,
                                  !.data = read.records,
                                  !.view = store, !.store0 = store,
                                  !.now = clock + 1]
                    /\ clock' = clock + 1
    /\ UNCHANGED <<store, kv, idx, rd, tasks, gen>>

\* lines 51-118: the payload, ReadAll, the empty check, BeginTx
IngestStart(inputs) ==
    /\ ing.pc = "idle"
    /\ \E kind \in {"direct", "s3"}, records \in inputs, fetchOk, beginOk \in BOOLEAN :
        /\ kind = "direct" => fetchOk
        /\ gen + MaxRows <= Len(GenUUID)
        /\ LET content == CsvContent(kind, records, fetchOk)
               read == ReadAll(content.records)
               end(result) ==
                   /\ ing' = [IdleIng EXCEPT !.pc = "done", !.result = result,
                                  !.records = content.records,
                                  !.nrec = Len(read.records), !.store0 = store]
                   /\ UNCHANGED clock
           IN  IF content.err THEN end("InputError")
               ELSE IF read.err THEN end("ReadError")
               ELSE IF EmptyCsv(read.records) THEN end("EmptyInput")
               ELSE IF ~beginOk THEN end("IngestFailed")
               ELSE /\ ing' = [IdleIng EXCEPT
                                  !.pc = "row", !.records = content.records,
                                  !.header = Head(read.records),
                                  !.nrec = Len(read.records),
                                  !.rows = Tail(read.records),
                                  !.data = Tail(read.records),
                                  !.view = store, !.store0 = store,
                                  !.now = clock + 1]
                    /\ clock' = clock + 1
    /\ UNCHANGED <<store, kv, idx, rd, tasks, gen>>

\* mutant: the product cached carries the id the record supplied or the
\* handler generated, not the id the re-fetch returned
IngestRow_CachesInput ==
    /\ ing.pc = "row"
    /\ ing.rows # <<>>
    /\ LET out == ProcessRow(Head(ing.rows), ing.view, ing.failed, gen, ing.now)
           storedProduct == IF out.tag = "ok"
                            THEN [SelectByName(out.view, Head(ing.rows)[2])
                                    EXCEPT !.id = out.id]
                            ELSE <<>>
           cached == out.tag = "ok" /\ ~Marshal(storedProduct).err
       IN  /\ ing' = [ing EXCEPT
                         !.rows = Tail(@), !.view = out.view,
                         !.failed = out.failed,
                         !.log = Append(@, [tag |-> out.tag, id |-> out.id]),
                         !.cur = IF cached THEN storedProduct ELSE <<>>,
                         !.pc = IF cached THEN "set" ELSE "row"]
           /\ gen' = out.g
    /\ UNCHANGED <<store, kv, idx, rd, tasks, clock>>

\* lines 120-186: one data row: validate, parse, upsert, re-fetch, marshal;
\* a product json.Marshal cannot encode is logged and not cached
IngestRow ==
    /\ ing.pc = "row"
    /\ ing.rows # <<>>
    /\ LET out == ProcessRow(Head(ing.rows), ing.view, ing.failed, gen, ing.now)
           storedProduct == IF out.tag = "ok"
                            THEN SelectByName(out.view, Head(ing.rows)[2])
                            ELSE <<>>
           cached == out.tag = "ok" /\ ~Marshal(storedProduct).err
       IN  /\ ing' = [ing EXCEPT
                         !.rows = Tail(@), !.view = out.view,
                         !.failed = out.failed,
                         !.log = Append(@, [tag |-> out.tag, id |-> out.id]),
                         !.cur = IF cached THEN storedProduct ELSE <<>>,
                         !.pc = IF cached THEN "set" ELSE "row"]
           /\ gen' = out.g
    /\ UNCHANGED <<store, kv, idx, rd, tasks, clock>>

\* mutant: a failed SET aborts the transaction
IngestSet_Fatal ==
    /\ ing.pc = "set"
    /\ \E ok \in BOOLEAN :
        IF ok
        THEN /\ kv' = (ing.cur.id :> [val |-> Marshal(ing.cur).s, ttl |-> FALSE]) @@ kv
             /\ ing' = [ing EXCEPT !.pc = "sadd"]
        ELSE /\ kv' = kv
             /\ ing' = [ing EXCEPT !.pc = "sadd", !.cacheErrs = @ + 1,
                                   !.failed = TRUE]
    /\ UNCHANGED <<store, idx, rd, tasks, clock, gen>>

\* lines 188-193: SET product:<id> with no expiration; a failure is logged
IngestSet ==
    /\ ing.pc = "set"
    /\ \E ok \in BOOLEAN :
        IF ok
        THEN /\ kv' = (ing.cur.id :> [val |-> Marshal(ing.cur).s, ttl |-> FALSE]) @@ kv
             /\ ing' = [ing EXCEPT !.pc = "sadd"]
        ELSE /\ kv' = kv
             /\ ing' = [ing EXCEPT !.pc = "sadd", !.cacheErrs = @ + 1]
    /\ UNCHANGED <<store, idx, rd, tasks, clock, gen>>

\* lines 195-199: SADD all_product_ids <id>; a failure is logged
IngestSAdd ==
    /\ ing.pc = "sadd"
    /\ \E ok \in BOOLEAN :
        IF ok
        THEN /\ idx' = idx \cup {ing.cur.id}
             /\ ing' = [ing EXCEPT !.pc = "row"]
        ELSE /\ idx' = idx
             /\ ing' = [ing EXCEPT !.pc = "row", !.cacheErrs = @ + 1]
    /\ UNCHANGED <<store, kv, rd, tasks, clock, gen>>

\* mutant: the rows of a transaction whose commit failed stay in the table
IngestCommit_NoRollback ==
    /\ ing.pc = "row"
    /\ ing.rows = <<>>
    /\ IF ing.failed
       THEN /\ ing' = [ing EXCEPT !.pc = "done", !.result = "IngestFailed",
                                  !.commitErr = "aborted"]
            /\ store' = store
       ELSE \E ok \in BOOLEAN :
            IF ok
            THEN /\ store' = ing.view
                 /\ ing' = [ing EXCEPT !.pc = "done", !.result = "ok"]
            ELSE /\ store' = ing.view
                 /\ ing' = [ing EXCEPT !.pc = "done", !.result = "IngestFailed",
                                       !.commitErr = "conn"]
    /\ UNCHANGED <<kv, idx, rd, tasks, clock, gen>>

\* lines 202-208: tx.Commit; lib/pq rolls a failed transaction back and
\* returns an error; the deferred Rollback ends every other failure
IngestCommit ==
    /\ ing.pc = "row"
    /\ ing.rows = <<>>
    /\ IF ing.failed
       THEN /\ ing' = [ing EXCEPT !.pc = "done", !.result = "IngestFailed",
                                  !.commitErr = "aborted"]
            /\ store' = store
       ELSE \E ok \in BOOLEAN :
            IF ok
            THEN /\ store' = ing.view
                 /\ ing' = [ing EXCEPT !.pc = "done", !.result = "ok"]
            ELSE /\ store' = store
                 /\ ing' = [ing EXCEPT !.pc = "done", !.result = "IngestFailed",
                                       !.commitErr = "conn"]
    /\ UNCHANGED <<kv, idx, rd, tasks, clock, gen>>


-----------------------------------------------------------------------------
(* getAllProducts: handler, getProductsFromCache, getProductsFromDB *)

\* err: the error getProductsFromCache returned, until the handler has
\* logged it and the fallback query overwrites it
IdleRd ==
    [pc |-> "idle", ids |-> <<>>, products |-> <<>>, status |-> 0,
     source |-> "", err |-> "", dbErr |-> FALSE, spawned |-> FALSE]

\* the orders in which SMEMBERS may return the members of a set
Perms(S) ==
    {s \in [1..Cardinality(S) -> S] : \A i, j \in 1..Cardinality(S) : s[i] = s[j] => i = j}

\* MGET product:<id> ...: one result per key, nil for a key that is absent
MGet(keys, m) ==
    [i \in 1..Len(keys) |->
        IF keys[i] \in DOMAIN m THEN [nil |-> FALSE, val |-> m[keys[i]].val]
                                ELSE [nil |-> TRUE, val |-> Garbage]]

\* mutant: one absent or undecodable result discards the whole read
DecodeResults_AbortOnBad(results) ==
    IF \E i \in 1..Len(results) : results[i].nil \/ Unmarshal(results[i].val).err
    THEN <<>>
    ELSE [i \in 1..Len(results) |-> Unmarshal(results[i].val).p]

\* lines 123-143: keep the results that are present and unmarshal
RECURSIVE DecodeResults(_)
DecodeResults(results) ==
    IF results = <<>> THEN <<>>
    ELSE LET res == Head(results)
             rest == DecodeResults(Tail(results))
         IN  IF res.nil THEN rest
             ELSE IF Unmarshal(res.val).err THEN rest
             ELSE <<Unmarshal(res.val).p>> \o rest

\* SELECT ... FROM products ORDER BY name ASC
getProductsFromDB(table) ==
    CHOOSE s \in [1..Cardinality(table) -> table] :
        \A i, j \in 1..Cardinality(table) :
            i < j => NameRank[s[i].name] < NameRank[s[j].name]

\* lines 189-199: one SET per product json.Marshal encodes
RECURSIVE SetCmds(_)
SetCmds(products) ==
    IF products = <<>> THEN <<>>
    ELSE IF Marshal(Head(products)).err THEN SetCmds(Tail(products))
    ELSE <<[op |-> "SET", id |-> Head(products).id,
            val |-> Marshal(Head(products)).s, ids |-> {}]>>
         \o SetCmds(Tail(products))

\* the members of the SADD: the slot of a product that was not encoded keeps
\* its nil, which goes over the wire as the empty string
allProductIDs(products) ==
    {IF Marshal(products[i]).err THEN "" ELSE products[i].id :
        i \in 1..Len(products)}

\* mutant: the index set is not cleared before the SADD
populateCache_NoDel(products) ==
    SetCmds(products)
    \o (IF Len(products) > 0
        THEN <<[op |-> "SADD", id |-> "", val |-> Garbage,
                ids |-> allProductIDs(products)]>>
        ELSE <<>>)

\* mutant: the DEL of the index set is queued after the SADD
populateCache_DelLast(products) ==
    SetCmds(products)
    \o (IF Len(products) > 0
        THEN <<[op |-> "SADD", id |-> "", val |-> Garbage,
                ids |-> allProductIDs(products)]>>
        ELSE <<>>)
    \o <<[op |-> "DEL", id |-> "", val |-> Garbage, ids |-> {}]>>

\* the commands populateCache queues on the pipeline
populateCache(products) ==
    SetCmds(products)
    \o <<[op |-> "DEL", id |-> "", val |-> Garbage, ids |-> {}]>>
    \o (IF Len(products) > 0
        THEN <<[op |-> "SADD", id |-> "", val |-> Garbage,
                ids |-> allProductIDs(products)]>>
        ELSE <<>>)

\* mutant: one missing or undecodable entry is a miss
getProductsFromCache_StrictMiss(ids, m) ==
    LET products == DecodeResults(MGet(ids, m))
    IN  IF Len(products) < Len(ids)
        THEN [err |-> TRUE, products |-> <<>>]
        ELSE [err |-> FALSE, products |-> products]

\* getProductsFromCache after SMEMBERS returned `ids` (lines 107-152): the
\* products decoded from the MGET results, or an error when none is left
getProductsFromCache(ids, m) ==
    LET products == DecodeResults(MGet(ids, m))
    IN  IF Len(products) = 0 /\ Len(ids) > 0
        THEN [err |-> TRUE, products |-> <<>>]
        ELSE [err |-> FALSE, products |-> products]

\* lines 68-95: json.Marshal of the product list decides the status
MarshalAll(products) ==
    [err |-> \E i \in 1..Len(products) : Marshal(products[i]).err]

StatusOf(products) == IF MarshalAll(products).err THEN 500 ELSE 200

\* lines 98-109: SMEMBERS all_product_ids; an error or an empty set is a miss.
\* `replies` are the outcomes the Redis call may have: TRUE a reply, FALSE an error
SMembers(replies) ==
    /\ rd.pc = "idle"
    /\ \E ok \in replies :
        IF ~ok
        THEN rd' = [IdleRd EXCEPT !.pc = "db", !.err = "smembers"]
        ELSE IF idx = {}
        THEN rd' = [IdleRd EXCEPT !.pc = "db", !.err = "empty"]
        ELSE \E order \in Perms(idx) :
                rd' = [IdleRd EXCEPT !.pc = "mget", !.ids = order]
    /\ UNCHANGED <<store, kv, idx, ing, tasks, clock, gen>>

\* a request is taken while fewer than MaxTasks goroutines are running
ReadSMembers(replies) ==
    /\ Len(tasks) < MaxTasks
    /\ SMembers(replies)

\* lines 111-152 and 68-95: MGET, decode, the all-missing check, and the
\* response when the cache has served the list
ReadMGet(replies) ==
    /\ rd.pc = "mget"
    /\ \E ok \in replies :
        IF ~ok
        THEN rd' = [rd EXCEPT !.pc = "db", !.err = "mget"]
        ELSE LET got == getProductsFromCache(rd.ids, kv)
             IN  IF got.err
                 THEN rd' = [rd EXCEPT !.pc = "db", !.err = "missing"]
                 ELSE rd' = [rd EXCEPT !.pc = "done", !.products = got.products,
                                       !.status = StatusOf(got.products),
                                       !.source = "cache"]
    /\ UNCHANGED <<store, kv, idx, ing, tasks, clock, gen>>

\* mutant: populateCache is started whether or not the query succeeded
ReadDB_AlwaysSpawns ==
    /\ rd.pc = "db"
    /\ \E ok \in BOOLEAN :
        IF ~ok
        THEN /\ rd' = [rd EXCEPT !.pc = "done", !.status = 500, !.err = "",
                                 !.dbErr = TRUE]
             /\ tasks' = Append(tasks, [cmds |-> populateCache(<<>>),
                                        products |-> <<>>])
        ELSE LET products == getProductsFromDB(store)
             IN  /\ rd' = [rd EXCEPT !.pc = "done", !.products = products,
                                     !.status = StatusOf(products),
                                     !.source = "db", !.err = "",
                                     !.spawned = TRUE]
                 /\ tasks' = Append(tasks, [cmds |-> populateCache(products),
                                            products |-> products])
    /\ UNCHANGED <<store, kv, idx, ing, clock, gen>>

\* lines 47-95: the fallback query, the detached populateCache, and the
\* response
ReadDB ==
    /\ rd.pc = "db"
    /\ \E ok \in BOOLEAN :
        IF ~ok
        THEN /\ rd' = [rd EXCEPT !.pc = "done", !.status = 500, !.err = "",
                                 !.dbErr = TRUE]
             /\ tasks' = tasks
        ELSE LET products == getProductsFromDB(store)
             IN  /\ rd' = [rd EXCEPT !.pc = "done", !.products = products,
                                     !.status = StatusOf(products),
                                     !.source = "db", !.err = "",
                                     !.spawned = TRUE]
                 /\ tasks' = Append(tasks, [cmds |-> populateCache(products),
                                            products |-> products])
    /\ UNCHANGED <<store, kv, idx, ing, clock, gen>>

\* the response is returned; the next request may start
ReadReturn ==
    /\ rd.pc = "done"
    /\ rd' = IdleRd
    /\ UNCHANGED <<store, kv, idx, ing, tasks, clock, gen>>

-----------------------------------------------------------------------------
(* Redis: pipelined commands and key expiry *)

\* mutant: populateCache writes its entries without an expiration
ApplyCmd_NoTTL(c, m, s) ==
    CASE c.op = "SET"  -> [kv |-> (c.id :> [val |-> c.val, ttl |-> FALSE]) @@ m,
                           idx |-> s]
      [] c.op = "DEL"  -> [kv |-> m, idx |-> {}]
      [] c.op = "SADD" -> [kv |-> m, idx |-> s \cup c.ids]

\* the effect of one command on the keys and on the index set
ApplyCmd(c, m, s) ==
    CASE c.op = "SET"  -> [kv |-> (c.id :> [val |-> c.val, ttl |-> TRUE]) @@ m,
                           idx |-> s]
      [] c.op = "DEL"  -> [kv |-> m, idx |-> {}]
      [] c.op = "SADD" -> [kv |-> m, idx |-> s \cup c.ids]

\* a sequence without its i-th element
Remove(s, i) == SubSeq(s, 1, i - 1) \o SubSeq(s, i + 1, Len(s))

\* the server executes the next command of a pipeline (pipe.Exec, line 208);
\* commands of other clients may run between two commands of a pipeline
PipeStep ==
    \E i \in 1..Len(tasks) :
        /\ tasks[i].cmds # <<>>
        /\ LET r == ApplyCmd(Head(tasks[i].cmds), kv, idx)
           IN  /\ kv' = r.kv
               /\ idx' = r.idx
        /\ tasks' = [tasks EXCEPT ![i].cmds = Tail(@)]
        /\ UNCHANGED <<store, ing, rd, clock, gen>>

\* mutant: the error of populateCache reaches the response
PipeFail_Surfaces ==
    \E i \in 1..Len(tasks) :
        /\ tasks[i].cmds # <<>>
        /\ tasks' = Remove(tasks, i)
        /\ rd' = IF rd.pc = "done" THEN [rd EXCEPT !.status = 500] ELSE rd
        /\ UNCHANGED <<store, kv, idx, ing, clock, gen>>

\* pipe.Exec fails (lines 209-211): the commands not yet executed are lost,
\* the error is logged and the goroutine ends
PipeFail ==
    \E i \in 1..Len(tasks) :
        /\ tasks[i].cmds # <<>>
        /\ tasks' = Remove(tasks, i)
        /\ UNCHANGED <<store, kv, idx, ing, rd, clock, gen>>

\* pipe.Exec returned no error (lines 212-213): populateCache logs the number
\* of products and the goroutine ends
PipeDone ==
    \E i \in 1..Len(tasks) :
        /\ tasks[i].cmds = <<>>
        /\ tasks' = Remove(tasks, i)
        /\ UNCHANGED <<store, kv, idx, ing, rd, clock, gen>>

\* a key written with a time-to-live expires
Expire ==
    \E id \in DOMAIN kv :
        /\ kv[id].ttl
        /\ kv' = [k \in DOMAIN kv \ {id} |-> kv[k]]
        /\ UNCHANGED <<store, idx, ing, rd, tasks, clock, gen>>

-----------------------------------------------------------------------------
(* States earlier invocations have left behind *)

\* rows earlier batches have committed, at database time 0: a Gadget that
\* is out of stock or a Widget that is in stock, under either identifier
StoredRows ==
    {InsertedRow(id, "Gadget", "img.png", 9990, 0, 0) : id \in CsvUUIDs}
    \cup {InsertedRow(id, "Widget", NULL, 19999, 5, 0) : id \in CsvUUIDs}

\* the tables over StoredRows: id is the primary key, name is unique
InitStores ==
    {T \in SUBSET StoredRows :
        \A r, t \in T : r # t => r.id # t.id /\ r.name # t.name}

\* the cache after uploadProduct has mirrored `table` (no expiration), or
\* after populateCache has rebuilt it (ttl)
Mirror(table, ttl) ==
    [id \in {r.id : r \in {t \in table : ~Marshal(t).err}} |->
        [val |-> Marshal(CHOOSE r \in table : r.id = id).s, ttl |-> ttl]]

EmptyKv == [k \in {} |-> Garbage]

-----------------------------------------------------------------------------
(* The service: one upload while listing requests, populateCache goroutines
   and key expiry go on, from an empty database or one earlier invocations
   have filled *)

\* the payloads of Spec: a header and up to MaxBatch of these records
SmallRows ==
    {<<"u2", "Widget", "img.png", "9.99", "0">>,
     <<"u1", "Gadget", "", "19.999", "5">>,
     <<"u2", "Gadget", "", "9.99", "-1">>}

SmallPayloads ==
    {<<h>> \o d : h \in {<<"id", "name", "image", "price", "qty">>},
                  d \in SeqsUpTo(SmallRows, MaxBatch)}

\* the database Spec may start from: empty, or holding one product
SmallStores ==
    {{}, {InsertedRow("u1", "Gadget", "img.png", 9990, 0, 0)}}

Init ==
    /\ store \in SmallStores
    /\ \E ttl \in BOOLEAN :
        \/ kv = Mirror(store, ttl) /\ idx = DOMAIN kv
        \/ kv = EmptyKv /\ idx = {}
    /\ ing = IdleIng
    /\ rd = IdleRd
    /\ tasks = <<>>
    /\ clock = 0
    /\ gen = 0

Next ==
    \/ IngestStart(SmallPayloads)
    \/ IngestRow
    \/ IngestSet
    \/ IngestSAdd
    \/ IngestCommit
    \/ ReadSMembers(BOOLEAN)
    \/ ReadMGet(BOOLEAN)
    \/ ReadDB
    \/ ReadReturn
    \/ PipeStep
    \/ PipeFail
    \/ PipeDone
    \/ Expire

Spec == Init /\ [][Next]_vars

-----------------------------------------------------------------------------
(* The service while the upload carries a single record *)

\* the payloads of a header and one record
OneRowPayloads == {p \in SmallPayloads : Len(p) = 2}

NextCache ==
    \/ IngestStart(OneRowPayloads)
    \/ IngestRow
    \/ IngestSet
    \/ IngestSAdd
    \/ IngestCommit
    \/ ReadSMembers(BOOLEAN)
    \/ ReadMGet(BOOLEAN)
    \/ ReadDB
    \/ ReadReturn
    \/ PipeStep
    \/ PipeFail
    \/ PipeDone
    \/ Expire

SpecCache == Init /\ [][NextCache]_vars

-----------------------------------------------------------------------------
(* One uploadProduct invocation alone, over every payload *)

InitIngest ==
    /\ store \in InitStores
    /\ kv = Mirror(store, FALSE)
    /\ idx = DOMAIN kv
    /\ ing = IdleIng
    /\ rd = IdleRd
    /\ tasks = <<>>
    /\ clock = 0
    /\ gen = 0

NextIngest ==
    \/ IngestStart(Payloads)
    \/ IngestRow
    \/ IngestSet
    \/ IngestSAdd
    \/ IngestCommit

SpecIngest == InitIngest /\ [][NextIngest]_vars

-----------------------------------------------------------------------------
(* One uploadProduct invocation whose first record may be a product *)

\* a header, or a well-formed record in its place, then up to MaxBatch records
HeaderPayloads ==
    {<<h>> \o d : h \in {<<"id", "name", "image", "price", "qty">>} \cup SmallRows,
                  d \in SeqsUpTo(SmallRows, MaxBatch)}

NextHeader ==
    \/ IngestStart(HeaderPayloads)
    \/ IngestRow
    \/ IngestSet
    \/ IngestSAdd
    \/ IngestCommit

SpecHeader == InitIngest /\ [][NextHeader]_vars

-----------------------------------------------------------------------------
(* One getAllProducts invocation alone, over every table and cache state *)

\* the row the upload of a record with price NaN leaves in the table
NaNRow == InsertedRow("g1", "Widget", NULL, NaN, 5, 0)

ReadStores ==
    {T \in SUBSET (StoredRows \cup {NaNRow}) :
        \A r, t \in T : r # t => r.id # t.id /\ r.name # t.name}

\* what product:<id> may hold: a product of that id as populateCache encodes
\* it, or a string another client has written that is no product
CachedEntries(id) ==
    {[val |-> Marshal(r).s, ttl |-> TRUE] : r \in {t \in StoredRows : t.id = id}}
    \cup {[val |-> Garbage, ttl |-> TRUE]}

ReadKvs ==
    UNION {{m \in [D -> UNION {CachedEntries(id) : id \in D}] :
                \A id \in D : m[id] \in CachedEntries(id)} :
           D \in SUBSET CsvUUIDs}

\* members all_product_ids may hold: identifiers, and the empty member
\* populateCache adds for a product it could not encode
ReadIds == CsvUUIDs \cup {""}

InitRead ==
    /\ store \in ReadStores
    /\ kv \in ReadKvs
    /\ idx \in SUBSET ReadIds
    /\ ing = IdleIng
    /\ rd = IdleRd
    /\ tasks = <<>>
    /\ clock = 0
    /\ gen = 0

NextRead ==
    \/ ReadSMembers(BOOLEAN)
    \/ ReadMGet(BOOLEAN)
    \/ ReadDB
    \/ ReadReturn

SpecRead == InitRead /\ [][NextRead]_vars

-----------------------------------------------------------------------------
(* populateCache run to completion, then one getAllProducts invocation whose
   Redis calls succeed; no key expires and no other client writes *)

\* products populateCache may be handed
MaxProducts == 2

RoundTripRows ==
    {InsertedRow("u1", "Gadget", "img.png", 9990, 0, 0),
     InsertedRow("u2", "Widget", NULL, 19999, 5, 0),
     InsertedRow("u2", "Gadget", "img.png", 9990, 0, 0),
     NaNRow}

\* lists of products with distinct ids
ProductLists ==
    {P \in SeqsUpTo(RoundTripRows, MaxProducts) :
        \A i, j \in 1..Len(P) : P[i].id = P[j].id => i = j}

RoundTripStores ==
    {{}, {InsertedRow("u1", "Gadget", "img.png", 9990, 0, 0)},
     {InsertedRow("u2", "Gadget", NULL, 19999, 5, 0), NaNRow}}

InitRoundTrip ==
    /\ store \in RoundTripStores
    /\ kv \in ReadKvs
    /\ idx \in SUBSET ReadIds
    /\ ing = IdleIng
    /\ rd = IdleRd
    /\ \E P \in ProductLists :
        tasks = <<[cmds |-> populateCache(P), products |-> P]>>
    /\ clock = 0
    /\ gen = 0

NextRoundTrip ==
    \/ rd.pc = "idle" /\ PipeStep
    \/ tasks[1].cmds = <<>> /\ SMembers({TRUE})
    \/ tasks[1].cmds = <<>> /\ ReadMGet({TRUE})
    \/ tasks[1].cmds = <<>> /\ ReadDB

SpecRoundTrip == InitRoundTrip /\ [][NextRoundTrip]_vars

-----------------------------------------------------------------------------
(* populateCache run twice in succession with the same products, from every
   cache state; no key expires and no other client writes *)

InitTwice ==
    /\ store = {}
    /\ kv \in ReadKvs
    /\ idx \in SUBSET ReadIds
    /\ ing = IdleIng
    /\ rd = IdleRd
    /\ \E P \in ProductLists :
        tasks = <<[cmds |-> populateCache(P), products |-> P],
                  [cmds |-> populateCache(P), products |-> P]>>
    /\ clock = 0
    /\ gen = 0

\* the pipeline of the first call, then the pipeline of the second
NextTwice ==
    \/ tasks[1].cmds # <<>> /\ PipeStep /\ tasks'[2] = tasks[2]
    \/ tasks[1].cmds = <<>> /\ PipeStep

SpecTwice == InitTwice /\ [][NextTwice]_vars

-----------------------------------------------------------------------------
(* The service with Redis and the database available to the listing: every
   SMEMBERS, MGET, query and pipeline succeeds, and whatever can run does run *)

ReadDBOk == ReadDB /\ ~rd'.dbErr

Upload == IngestRow \/ IngestSet \/ IngestSAdd \/ IngestCommit

NextAvailable ==
    \/ IngestStart(SmallPayloads)
    \/ Upload
    \/ ReadSMembers({TRUE})
    \/ ReadMGet({TRUE})
    \/ ReadDBOk
    \/ ReadReturn
    \/ PipeStep
    \/ PipeDone
    \/ Expire

SpecAvailable ==
    /\ Init
    /\ [][NextAvailable]_vars
    /\ WF_vars(Upload)
    /\ WF_vars(ReadSMembers({TRUE}))
    /\ WF_vars(ReadMGet({TRUE}))
    /\ WF_vars(ReadDBOk)
    /\ WF_vars(ReadReturn)
    /\ WF_vars(PipeStep)
    /\ WF_vars(PipeDone)
    /\ WF_vars(Expire)

-----------------------------------------------------------------------------
(* Properties of uploadProduct *)

\* the invocation has begun its transaction
Began == ing.pc # "idle" /\ ing.now > 0

\* the invocation has ended with its transaction committed
Committed == ing.pc = "done" /\ ing.result = "ok"

\* a record with the five columns whose price and qty parse
WellFormed(row) ==
    Len(row) >= 5 /\ ~ParseFloat(row[4]).err /\ ~Atoi(row[5]).err

\* rows i < j of the batch are the first and the last well-formed rows naming
\* a product that was not stored before, and were given different ids
SameNamePair(i, j) ==
    /\ i < j
    /\ WellFormed(ing.data[i])
    /\ WellFormed(ing.data[j])
    /\ ing.data[i][2] = ing.data[j][2]
    /\ ing.log[i].id # ing.log[j].id
    /\ \A r \in ing.store0 : r.name # ing.data[i][2]
    /\ \A k \in 1..Len(ing.data) :
        (WellFormed(ing.data[k]) /\ ing.data[k][2] = ing.data[i][2])
            => (i <= k /\ k <= j)

\* C3: when a committed batch holds two well-formed rows with one name and
\* different ids, and the name was not stored before, the table holds exactly
\* one row of that name, with the id the first row was given and the image,
\* price and qty of the last one
C3_LastWriteWins ==
    Committed =>
        \A i, j \in 1..Len(ing.data) :
            SameNamePair(i, j) =>
                /\ Cardinality({r \in store : r.name = ing.data[i][2]}) = 1
                /\ \A r \in store :
                    r.name = ing.data[i][2] =>
                        /\ r.id = ing.log[i].id
                        /\ r.image = nullString(ing.data[j][3])
                        /\ r.price = Numeric2(ParseFloat(ing.data[j][4]).v)
                        /\ r.qty = Atoi(ing.data[j][5]).v

\* a committed batch of a row without id and a row with id u1 for one new
\* name, whose values differ
C3_Witness ==
    /\ Committed
    /\ Len(ing.data) = 2
    /\ SameNamePair(1, 2)
    /\ ing.data[1][1] = ""
    /\ ing.data[2][1] = "u1"
    /\ ing.data[1][5] # ing.data[2][5]
    /\ \E r \in store : r.id = "g1" /\ r.qty = Atoi(ing.data[2][5]).v

\* a batch that ends with `result` and `commitErr` and leaves `table` ends
\* as the rows alone determine: what is committed, and whether a statement
\* aborted the transaction
TxFollows(rows, result, commitErr, table) ==
    LET exp == RunRows(rows, ing.store0, FALSE, 0, ing.now)
    IN  /\ result = "ok" => table = exp.view
        /\ result # "ok" => table = ing.store0
        /\ commitErr = "aborted" <=> exp.failed
        /\ result = "ok" <=> (~exp.failed /\ commitErr = "")

\* of the texts a price column holds here, the decimal numbers; and of the
\* texts of a qty column, the integers
DecimalText(s) == s \in {"9.99", "19.999"}
IntegerText(s) == s \in {"0", "5", "-1"}

\* C4 as claimed: every row of five columns whose price is no decimal number,
\* or whose qty is no integer, has been skipped when the batch ends: the
\* upsert was not executed for it and no row of the table carries its price
C4_BadNumberSkipped ==
    (ing.pc = "done" /\ Began) =>
        /\ \A k \in 1..Len(ing.data) :
              (/\ Len(ing.data[k]) >= 5
               /\ ~DecimalText(ing.data[k][4]) \/ ~IntegerText(ing.data[k][5]))
                  => ing.log[k].tag \in {"price", "qty"}
        /\ \A r \in store : r.price # NaN

\* C6: a payload of the header alone ends with EmptyInput; no transaction is
\* begun and the table and the cache are left as they were
C6_EmptyInput ==
    [][(ing.pc = "idle" /\ ing'.pc # "idle" /\ ing'.nrec = 1)
            => /\ ing'.pc = "done"
               /\ ing'.result = "EmptyInput"
               /\ ing'.now = 0
               /\ ing'.log = <<>>
               /\ UNCHANGED <<store, kv, idx, clock, gen>>
      ]_vars

C6_Witness ==
    /\ ing.pc = "done"
    /\ ing.nrec = 1
    /\ ing.result = "EmptyInput"
    /\ store # {}
    /\ store = ing.store0
    /\ clock = 0

\* C9: whichever SET and SADD fail, the rows of the transaction, its state,
\* what is committed and the result are those the payload and the table
\* before determine; only the commit's own failure can keep a batch that no
\* statement aborted from being committed
C9_CacheFailuresNeverReachStore ==
    Began =>
        LET k == Len(ing.log)
            sofar == RunRows(SubSeq(ing.data, 1, k), ing.store0, FALSE, 0, ing.now)
        IN  /\ ing.view = sofar.view
            /\ ing.failed = sofar.failed
            /\ ing.pc = "done" => (/\ k = Len(ing.data)
                                   /\ TxFollows(ing.data, ing.result,
                                                ing.commitErr, store))
            /\ ing.pc # "done" => store = ing.store0

\* a batch committed although both cache writes of a row failed
C9_Witness ==
    /\ Committed
    /\ ing.cacheErrs = 2
    /\ Len(ing.data) = 1
    /\ store # ing.store0
    /\ kv = Mirror(ing.store0, FALSE)

\* C10 as claimed: a batch in which Store rejects a row's upsert, and whose
\* commit meets no failure of its own, returns success with every row that
\* was upserted in the table
C10_RowErrorSkipped ==
    (ing.pc = "done" /\ Began /\ ing.commitErr # "conn")
        => /\ ing.result = "ok"
           /\ \A k \in 1..Len(ing.data) :
                WellFormed(ing.data[k]) /\ ing.log[k].tag = "ok"
                    => \E r \in store : r.name = ing.data[k][2]

-----------------------------------------------------------------------------
(* Properties of the table and the cache *)

OutOfStockMatchesQty(p) == p.out_of_stock = (p.qty = 0)

\* C2: in every state out_of_stock = (qty = 0) holds of every row of the
\* table, every row of the open transaction, every product cached under a
\* product:<id> key and every product a listing returns
C2_OutOfStockMatchesQty ==
    /\ \A r \in store : OutOfStockMatchesQty(r)
    /\ \A r \in ing.view : OutOfStockMatchesQty(r)
    /\ \A id \in DOMAIN kv :
          kv[id].val.kind = "json" => OutOfStockMatchesQty(kv[id].val.p)
    /\ \A i \in 1..Len(rd.products) : OutOfStockMatchesQty(rd.products[i])

\* the table holds a product inserted with qty 0 and a product whose qty an
\* upsert has raised from 0 to 5, and populateCache has cached a product
\* that is out of stock
C2_Witness ==
    /\ \E r \in store :
          r.name = "Widget" /\ r.qty = 0 /\ r.out_of_stock /\ r.created_at > 0
    /\ \E r \in store :
          /\ r.name = "Gadget" /\ r.qty = 5 /\ ~r.out_of_stock
          /\ r.created_at = 0 /\ r.updated_at > 0
    /\ \E id \in DOMAIN kv :
          kv[id].ttl /\ kv[id].val.kind = "json" /\ kv[id].val.p.qty = 0

-----------------------------------------------------------------------------
(* Properties of getAllProducts *)

\* product:<id> holds a string that decodes to a product
Decodable(id) == id \in DOMAIN kv /\ kv[id].val.kind = "json"

\* the products cached under `ids`, in that order
CachedProducts(ids) ==
    LET hits == SelectSeq(ids, Decodable)
    IN  [i \in 1..Len(hits) |-> kv[hits[i]].val.p]

\* `products` is the whole table in ascending order of name
SortedListing(products) ==
    /\ Len(products) = Cardinality(store)
    /\ SeqRange(products) = store
    /\ \A i, j \in 1..Len(products) :
          i < j => NameRank[products[i].name] < NameRank[products[j].name]

\* C5 as claimed: a request that found the index set non-empty and none of
\* its keys present, and whose query of the table succeeded, has returned
\* with success every row of the table in ascending order of name
C5_AllKeysGoneFallsBack ==
    (/\ rd.pc = "done"
     /\ rd.ids # <<>>
     /\ \A i \in 1..Len(rd.ids) : rd.ids[i] \notin DOMAIN kv
     /\ ~rd.dbErr)
        => /\ rd.source = "db"
           /\ rd.status = 200
           /\ SortedListing(rd.products)

\* C7 as claimed: the response is a server error exactly when the cache
\* read failed or missed and the query of the table failed; otherwise it is
\* a product list
C7_UnavailableOnlyOnDoubleFailure ==
    rd.pc = "done" =>
        /\ rd.status = (IF rd.dbErr THEN 500 ELSE 200)
        /\ rd.dbErr => rd.source = ""

\* C8: when the index set is non-empty the request goes on to MGET unless
\* SMEMBERS itself fails; when one indexed key at least holds a decodable
\* product, then unless MGET itself fails the request ends with status 200
\* and the cached products, in the order of the index read, without a query
\* of the table and without starting populateCache; the step leaves the
\* table, the keys, the index set and the goroutines as they were
C8_CacheHitServed ==
    [][/\ (rd.pc = "idle" /\ rd' # rd /\ idx # {})
            => \/ rd'.pc = "db" /\ rd'.err = "smembers"
               \/ /\ rd'.pc = "mget"
                  /\ Len(rd'.ids) = Cardinality(idx)
                  /\ SeqRange(rd'.ids) = idx
       /\ (rd.pc = "mget" /\ rd' # rd /\ \E i \in 1..Len(rd.ids) : Decodable(rd.ids[i]))
            => \/ rd'.pc = "db" /\ rd'.err = "mget"
               \/ /\ rd'.pc = "done"
                  /\ rd'.source = "cache"
                  /\ rd'.status = 200
                  /\ rd'.products = CachedProducts(rd.ids)
                  /\ ~rd'.dbErr
                  /\ ~rd'.spawned
                  /\ UNCHANGED <<store, kv, idx, tasks>>
      ]_vars

\* a list of one product served from the cache while the table is empty:
\* of the two indexed keys one is absent or holds no product
C8_Witness ==
    /\ rd.pc = "done"
    /\ rd.source = "cache"
    /\ rd.status = 200
    /\ Len(rd.ids) = 2
    /\ Len(rd.products) = 1
    /\ store = {}
    /\ tasks = <<>>

-----------------------------------------------------------------------------
(* Properties of populateCache followed by getAllProducts *)

\* the products populateCache was handed
Repopulated == tasks[1].products

ProductIds(products) == {products[i].id : i \in 1..Len(products)}

\* the ids of the products whose price is a number
EncodableIds(products) ==
    {products[i].id : i \in {k \in 1..Len(products) : products[k].price # NaN}}

-----------------------------------------------------------------------------
(* Properties of uploadProduct: the batch *)

\* the payload has a five-column header and, after it, a record of fewer
\* than five columns
HasShortRow ==
    /\ Len(ing.records) >= 2
    /\ Len(ing.records[1]) = 5
    /\ \E k \in 2..Len(ing.records) : Len(ing.records[k]) < 5

\* C11 as claimed: a batch whose payload has a record of fewer than five
\* columns, and whose transaction neither fails to begin nor to commit, ends
\* with success, the short record logged as skipped
C11_ShortRowSkipped ==
    (ing.pc = "done" /\ HasShortRow /\ ing.result # "IngestFailed")
        => /\ ing.result = "ok"
           /\ \A k \in 1..Len(ing.data) :
                 Len(ing.data[k]) < 5 => ing.log[k].tag = "columns"

-----------------------------------------------------------------------------
(* Properties of populateCache among the other invocations *)

\* the goroutine has had its DEL executed and its SADD is still to come
BetweenDelAndSAdd(t) == Len(t.cmds) = 1 /\ t.cmds[1].op = "SADD"

\* C12 as claimed: while a populateCache has deleted the index set and not
\* yet recreated it, no listing request reads the set and no upload adds to
\* it; and the step that executes the last command of a populateCache leaves
\* the index set equal to the ids of its products
C12_IndexReplacedAtomically ==
    [][/\ (\E i \in 1..Len(tasks) : BetweenDelAndSAdd(tasks[i]))
            => /\ ~(rd.pc = "idle" /\ rd'.pc # "idle" /\ rd'.err # "smembers")
               /\ ~(ing.pc = "sadd" /\ ing'.pc # "sadd" /\ idx' # idx)
       /\ \A i \in 1..Len(tasks) :
            (/\ Len(tasks') = Len(tasks)
             /\ tasks[i].cmds # <<>>
             /\ tasks'[i].cmds = <<>>)
                => idx' = {tasks[i].products[k].id : k \in 1..Len(tasks[i].products)}
      ]_vars

-----------------------------------------------------------------------------
(* Properties of the cache over time *)

\* C13 as claimed: after an upload has committed although cache writes of
\* its rows failed, a listing request eventually returns exactly the rows of
\* the table
C13_EventuallyReconciled ==
    (Committed /\ ing.cacheErrs > 0)
        ~> (rd.pc = "done" /\ rd.status = 200 /\ SeqRange(rd.products) = store)

-----------------------------------------------------------------------------
(* Expiry of the cache entries *)

\* the step is a SET of uploadProduct that Redis executed
IngestWrote == ing.pc = "set" /\ ing'.pc = "sadd" /\ ing'.cacheErrs = ing.cacheErrs

\* the step executes the SET of product:<id> queued by populateCache
PipeWrote(id) ==
    \E i \in 1..Len(tasks) :
        /\ Len(tasks') = Len(tasks)
        /\ tasks[i].cmds # <<>>
        /\ tasks'[i].cmds = Tail(tasks[i].cmds)
        /\ Head(tasks[i].cmds).op = "SET"
        /\ Head(tasks[i].cmds).id = id

\* C14: an entry written by populateCache carries a time-to-live and an
\* entry written by uploadProduct carries none, whatever the entry carried
\* before; an entry keeps what its last write gave it; only an entry with a
\* time-to-live ever disappears, and the index set keeps all its members
\* when one does: it shrinks only by the DEL of populateCache
C14_TTLAsymmetry ==
    [][/\ IngestWrote => /\ ing.cur.id \in DOMAIN kv'
                         /\ ~kv'[ing.cur.id].ttl
       /\ \A id \in DOMAIN kv' :
            /\ PipeWrote(id) => kv'[id].ttl
            /\ (id \in DOMAIN kv /\ kv'[id].ttl # kv[id].ttl)
                   => (PipeWrote(id) \/ (IngestWrote /\ ing.cur.id = id))
       /\ \A id \in DOMAIN kv \ DOMAIN kv' : kv[id].ttl /\ idx' = idx
       /\ ~(idx \subseteq idx')
            => \E i \in 1..Len(tasks) :
                  /\ tasks[i].cmds # <<>>
                  /\ Head(tasks[i].cmds).op = "DEL"
                  /\ idx' = {}
      ]_vars

\* uploadProduct has just overwritten, without expiration, an entry that a
\* running populateCache had written with a time-to-live
C14_Witness ==
    /\ ing.pc = "sadd"
    /\ ing.cacheErrs = 0
    /\ ing.cur.id \in DOMAIN kv
    /\ ~kv[ing.cur.id].ttl
    /\ \E i \in 1..Len(tasks) :
          /\ \E k \in 1..Len(tasks[i].products) :
                /\ tasks[i].products[k].id = ing.cur.id
                /\ ~Marshal(tasks[i].products[k]).err
          /\ \A k \in 1..Len(tasks[i].cmds) : tasks[i].cmds[k].op # "SET"

-----------------------------------------------------------------------------
(* The batch is one transaction *)

\* the step ends the invocation with `result`
IngestEnds(result) == ing.pc # "done" /\ ing'.pc = "done" /\ ing'.result = result

\* C15: the table changes in one step only, the commit that succeeds, which
\* makes the rows of the transaction the table: every row the loop upserted
\* is then stored as of this batch. An invocation that ends IngestFailed,
\* because BeginTx or Commit failed, leaves the table as it was when the
\* invocation started
C15_AllOrNothing ==
    [][/\ store' # store
            => /\ IngestEnds("ok")
               /\ ing.pc = "row" /\ ing.rows = <<>>
               /\ store' = ing.view
       /\ IngestEnds("IngestFailed")
            => /\ store' = ing'.store0
               /\ store' = store
       /\ IngestEnds("ok")
            => /\ store = ing.store0
               /\ \A k \in 1..Len(ing.data) :
                    ing.log[k].tag = "ok"
                        => \E r \in store' : /\ r.name = ing.data[k][2]
                                              /\ r.updated_at = ing.now
               /\ \A r \in store' :
                    r.updated_at # ing.now => r \in ing.store0
      ]_vars

\* the commit of a transaction holding an upserted row failed, and the table
\* is the one the invocation found
C15_Witness ==
    /\ ing.pc = "done"
    /\ ing.result = "IngestFailed"
    /\ ing.commitErr = "conn"
    /\ \E k \in 1..Len(ing.log) : ing.log[k].tag = "ok"
    /\ ing.view # ing.store0
    /\ store = ing.store0
    /\ store # {}

-----------------------------------------------------------------------------
(* The identifier of a product *)

\* `after` holds, for every row of `before`, a row of the same name, id and
\* created_at, and no two rows of one name
KeepsIdentity(before, after) ==
    /\ \A r \in before :
          \E t \in after : /\ t.name = r.name
                           /\ t.id = r.id
                           /\ t.created_at = r.created_at
    /\ \A t, u \in after : t.name = u.name => t = u

\* the step is the row loop's upsert of a record naming a product that the
\* transaction's rows already hold, and Store has executed it
UpsertOfExisting ==
    /\ ing.pc = "row"
    /\ ing.rows # <<>>
    /\ Len(ing'.log) = Len(ing.log) + 1
    /\ ing'.log[Len(ing'.log)].tag = "ok"
    /\ \E r \in ing.view : r.name = Head(ing.rows)[2]

\* C16: no step changes the id or created_at under which a name is stored,
\* in the table or in the rows of the transaction, or stores a name twice;
\* the upsert of a record whose name is stored changes image, price, qty,
\* out_of_stock and updated_at of that row and nothing else, whatever id
\* the record carries
C16_IdentifierStable ==
    [][/\ KeepsIdentity(store, store')
       /\ (ing.pc # "idle" /\ ing'.pc # "idle") => KeepsIdentity(ing.view, ing'.view)
       /\ UpsertOfExisting
            => LET row == Head(ing.rows)
                   old == CHOOSE r \in ing.view : r.name = row[2]
                   new == [old EXCEPT !.image = nullString(row[3]),
                                      !.price = Numeric2(ParseFloat(row[4]).v),
                                      !.qty = Atoi(row[5]).v,
                                      !.out_of_stock = (Atoi(row[5]).v = 0),
                                      !.updated_at = ing.now]
               IN  /\ ing'.view = (ing.view \ {old}) \cup {new}
                   /\ Cardinality(ing'.view) = Cardinality(ing.view)
      ]_vars

\* a committed batch held a record that named a stored product under another
\* id than the stored one, and changed that product
C16_Witness ==
    /\ Committed
    /\ \E k \in 1..Len(ing.data), r \in ing.store0 :
          /\ ing.log[k].tag = "ok"
          /\ r.name = ing.data[k][2]
          /\ ing.data[k][1] # r.id
          /\ r \notin store
          /\ \E t \in store : t.id = r.id /\ t.name = r.name /\ t.updated_at > r.updated_at

-----------------------------------------------------------------------------
(* The response of a listing that fell back to the table *)

\* the step is the fallback query that succeeds
FellBack == rd.pc = "db" /\ rd'.pc = "done" /\ ~rd'.dbErr

\* C17: the response of a listing that fell back to the table is the sorted
\* rows of the table and the status their encoding gives; it is complete
\* while every command of the populateCache it started is still to run and
\* the cache is as it was; and no step of populateCache, whether a command,
\* its failure or its end, changes a response that awaits its return
C17_FireAndForget ==
    [][/\ FellBack
            => /\ rd'.products = getProductsFromDB(store)
               /\ rd'.status = StatusOf(rd'.products)
               /\ rd'.source = "db"
               /\ Len(tasks') = Len(tasks) + 1
               /\ tasks'[Len(tasks')].cmds = populateCache(rd'.products)
               /\ kv' = kv /\ idx' = idx
       /\ rd.pc = "done" => (rd' = rd \/ (rd' = IdleRd /\ tasks' = tasks))
      ]_vars

\* a listing answered 200 from the table awaits its return, and the
\* populateCache it started has failed with the index set still empty
C17_Witness ==
    /\ rd.pc = "done"
    /\ rd.source = "db"
    /\ rd.status = 200
    /\ rd.products # <<>>
    /\ tasks = <<>>
    /\ idx = {}

-----------------------------------------------------------------------------
(* populateCache repeated *)

\* the index set populateCache(P) leaves
IndexOf(P) == IF P = <<>> THEN {} ELSE allProductIDs(P)

\* the entries of P are cached as populateCache writes them
EntriesOf(P, m) ==
    \A k \in 1..Len(P) :
        ~Marshal(P[k]).err
            => /\ P[k].id \in DOMAIN m
               /\ m[P[k].id] = [val |-> Marshal(P[k]).s, ttl |-> TRUE]

\* C18: when a call of populateCache(P) ends, the index set is the one P
\* alone determines and every product of P that can be encoded is cached
\* under its id, whatever the cache held; no step touches an entry of
\* another id; and no command of the second call changes any entry: the
\* cache after the second call is the cache after the first
C18_Idempotent ==
    [][LET P == tasks[1].products
       IN  /\ \A i \in 1..2 :
                 (tasks[i].cmds # <<>> /\ tasks'[i].cmds = <<>>)
                     => /\ idx' = IndexOf(P)
                        /\ EntriesOf(P, kv')
           /\ \A id \in (DOMAIN kv \cup DOMAIN kv') \ EncodableIds(P) :
                 /\ id \in DOMAIN kv
                 /\ id \in DOMAIN kv'
                 /\ kv'[id] = kv[id]
           /\ tasks[1].cmds = <<>> => kv' = kv
      ]_vars

\* both calls have ended, over a cache that held other members in its index
\* set and an entry of a product that is not in P
C18_Witness ==
    /\ tasks[1].cmds = <<>>
    /\ tasks[2].cmds = <<>>
    /\ Len(tasks[1].products) = 2
    /\ idx = IndexOf(tasks[1].products)
    /\ EntriesOf(tasks[1].products, kv)
    /\ \E id \in DOMAIN kv : id \notin ProductIds(tasks[1].products)

-----------------------------------------------------------------------------
(* When populateCache is started *)

\* C19: a step starts a populateCache exactly when it is the fallback query
\* of a request whose cache read failed or missed, and the query succeeds;
\* it starts one, with the very list the handler holds for its response. A
\* cache hit and a failed query start none, and a request only moves on:
\* from SMEMBERS to MGET or the query, from MGET to the query or the
\* response, from the query to the response; no call is made a second time
C19_SpawnIffMissAndQueryOk ==
    [][/\ tasks' # tasks <=> FellBack
       /\ FellBack
            => /\ rd.err \in {"smembers", "empty", "mget", "missing"}
               /\ rd'.products = getProductsFromDB(store)
               /\ tasks' = Append(tasks, [cmds |-> populateCache(rd'.products),
                                          products |-> rd'.products])
       /\ (rd.pc = "mget" /\ rd'.pc = "done")
            => /\ rd'.source = "cache" /\ ~rd'.spawned /\ tasks' = tasks
       /\ (rd.pc = "db" /\ rd'.dbErr)
            => /\ rd'.pc = "done" /\ rd'.status = 500
               /\ ~rd'.spawned /\ tasks' = tasks
       /\ rd.pc = "idle" => rd'.pc \in {"idle", "mget", "db"}
       /\ rd.pc = "mget" => rd'.pc \in {"mget", "db", "done"}
       /\ rd.pc = "db" => rd'.pc \in {"db", "done"}
       /\ rd.pc = "done" => rd'.pc \in {"done", "idle"}
      ]_vars

\* a request whose MGET found no entry has answered 200 from the table and
\* started one populateCache with the list it returns
C19_Witness ==
    /\ rd.pc = "done"
    /\ rd.spawned
    /\ rd.ids # <<>>
    /\ rd.status = 200
    /\ Len(rd.products) = 2
    /\ Len(tasks) = 1
    /\ tasks[1].products = rd.products
    /\ tasks[1].cmds = populateCache(rd.products)

-----------------------------------------------------------------------------
(* Index members without an entry *)

\* the members MGET was asked for that have no entry, or an entry that is
\* no product
Dangling(ids) == {ids[i] : i \in {k \in 1..Len(ids) : ~Decodable(ids[k])}}

\* C20: when the members read from the index set include one at least whose
\* entry is absent or no product and one at least whose entry is a product,
\* then unless MGET itself fails the request ends at once with status 200
\* from the cache, without an error, a query of the table or a
\* populateCache; the list holds the product of every member that has one,
\* once, and nothing for the others
C20_DanglingTolerated ==
    [][(/\ rd.pc = "mget" /\ rd' # rd
        /\ Dangling(rd.ids) # {}
        /\ Dangling(rd.ids) # SeqRange(rd.ids))
            => \/ rd'.pc = "db" /\ rd'.err = "mget"
               \/ /\ rd'.pc = "done"
                  /\ rd'.status = 200
                  /\ rd'.source = "cache"
                  /\ rd'.err = "" /\ ~rd'.dbErr
                  /\ tasks' = tasks
                  /\ SeqRange(rd'.products)
                        = {kv[id].val.p : id \in SeqRange(rd.ids) \ Dangling(rd.ids)}
                  /\ Len(rd'.products)
                        = Cardinality(SeqRange(rd.ids) \ Dangling(rd.ids))
                  /\ \A k \in 1..Len(rd'.products) :
                        rd'.products[k].id \notin Dangling(rd.ids)
      ]_vars

\* the index set named three members: one without an entry, one whose entry
\* is no product, one cached product, which alone was returned while the
\* table holds other rows
C20_Witness ==
    /\ rd.pc = "done"
    /\ rd.source = "cache"
    /\ rd.status = 200
    /\ Len(rd.ids) = 3
    /\ \E i \in 1..3 : rd.ids[i] \notin DOMAIN kv
    /\ \E i \in 1..3 : rd.ids[i] \in DOMAIN kv /\ ~Decodable(rd.ids[i])
    /\ Len(rd.products) = 1
    /\ rd.products[1] \notin store
    /\ store # {}

-----------------------------------------------------------------------------
(* What uploadProduct mirrors to the cache *)

\* the step is the upsert of a record that Store has executed
Upserted ==
    /\ ing.pc = "row"
    /\ ing.rows # <<>>
    /\ Len(ing'.log) = Len(ing.log) + 1
    /\ ing'.log[Len(ing'.log)].tag = "ok"

\* the step is a SADD of uploadProduct that Redis executed
IngestAdded == ing.pc = "sadd" /\ ing'.pc = "row" /\ ing'.cacheErrs = ing.cacheErrs

\* C21: the product uploadProduct goes on to cache after an upsert is the
\* row of the transaction that carries the record's name, with the id the
\* name had before when it was stored, whatever id the record carries; the
\* SET writes the encoding of that row under its id and touches no other
\* key, and the SADD adds that id and no other
C21_MirrorsReFetchedRow ==
    [][/\ (Upserted /\ ing'.pc = "set")
            => /\ ing'.cur \in ing'.view
               /\ ing'.cur.name = Head(ing.rows)[2]
               /\ ing'.cur.updated_at = ing.now
               /\ \A r \in ing.view :
                     r.name = Head(ing.rows)[2] => ing'.cur.id = r.id
       /\ IngestWrote
            => /\ ing.cur \in ing.view
               /\ DOMAIN kv' = DOMAIN kv \cup {ing.cur.id}
               /\ kv'[ing.cur.id].val = Marshal(ing.cur).s
               /\ Unmarshal(kv'[ing.cur.id].val).p = ing.cur
               /\ \A id \in DOMAIN kv \ {ing.cur.id} : kv'[id] = kv[id]
               /\ ing'.cur = ing.cur
       /\ IngestAdded
            => /\ ing.cur \in ing.view
               /\ idx' = idx \cup {ing.cur.id}
      ]_vars

\* a record naming a stored product under another id has been upserted and
\* mirrored: the row as updated is cached under the id the product had
C21_Witness ==
    /\ ing.pc = "row"
    /\ ing.log # <<>>
    /\ ing.log[Len(ing.log)].tag = "ok"
    /\ ing.cacheErrs = 0
    /\ ing.cur \in ing.view
    /\ ing.cur.updated_at = ing.now
    /\ ing.cur.created_at < ing.now
    /\ ing.data[Len(ing.log)][1] \notin {"", ing.cur.id}
    /\ ing.cur.id \in idx
    /\ ing.cur.id \in DOMAIN kv
    /\ kv[ing.cur.id].val = Marshal(ing.cur).s

-----------------------------------------------------------------------------
(* The first record *)

\* product p carries what record k of the payload holds, and the upsert of
\* that record was executed
FromRecord(p, k) ==
    /\ k - 1 <= Len(ing.log)
    /\ ing.log[k - 1].tag = "ok"
    /\ p.name = ing.records[k][2]
    /\ p.image = nullString(ing.records[k][3])
    /\ p.price = Numeric2(ParseFloat(ing.records[k][4]).v)
    /\ p.qty = Atoi(ing.records[k][5]).v
    /\ p.updated_at = ing.now

\* C22: the rows of the loop are the records after the first; every row the
\* transaction or the table holds that the table did not hold before, every
\* cache entry that is not the one the cache held before, and every new
\* member of the index set comes from one of the records 2..n whose upsert
\* was executed, never from the first record alone
C22_HeaderDiscarded ==
    Began =>
        LET before == Mirror(ing.store0, FALSE)
            n == Len(ing.records)
        IN  /\ ing.header = ing.records[1]
            /\ ing.data = Tail(ing.records)
            /\ Len(ing.log) + Len(ing.rows) = n - 1
            /\ \A p \in (ing.view \cup store) \ ing.store0 :
                  \E k \in 2..n : FromRecord(p, k)
            /\ \A id \in DOMAIN kv :
                  (id \notin DOMAIN before \/ kv[id] # before[id])
                      => \E k \in 2..n : FromRecord(Unmarshal(kv[id].val).p, k)
            /\ \A id \in idx \ DOMAIN before :
                  \E p \in ing.view \ ing.store0 : p.id = id

\* a batch whose first record is a well-formed record of a product has been
\* committed and mirrored: other products were stored, that one is neither
\* in the table nor in the cache
C22_Witness ==
    /\ Committed
    /\ WellFormed(ing.records[1])
    /\ IsUUID(ing.records[1][1])
    /\ store # ing.store0
    /\ ing.cacheErrs = 0
    /\ \A r \in store : r.name # ing.records[1][2]
    /\ ing.records[1][1] \notin DOMAIN kv \cup idx

-----------------------------------------------------------------------------
(* The identifier of a new product *)

\* the identifiers uuid.New() has returned in this batch so far
Generated == {ing.log[k].id : k \in {j \in 1..Len(ing.log) : ing.data[j][1] = ""}}

\* C23: the executed upsert of a record whose name is not stored adds one row
\* to the transaction, created now; the row carries the id of the record
\* when the record has one, and otherwise an id that no row of the
\* transaction or the table carries and that was not generated for an
\* earlier record of the batch; no two rows ever share an id
C23_NewRowId ==
    [][/\ (Upserted /\ \A r \in ing.view : r.name # Head(ing.rows)[2])
            => LET row == Head(ing.rows)
                   new == CHOOSE r \in ing'.view : r.name = row[2]
               IN  /\ ing'.view = ing.view \cup {new}
                   /\ Cardinality(ing'.view) = Cardinality(ing.view) + 1
                   /\ new.created_at = ing.now
                   /\ row[1] # "" => new.id = row[1]
                   /\ row[1] = ""
                        => /\ new.id \notin {r.id : r \in ing.view \cup store}
                           /\ new.id \notin Generated
                           /\ new.id \notin {ing.data[k][1] : k \in 1..Len(ing.data)}
                           /\ IsUUID(new.id)
       /\ \A r, t \in ing'.view : r.id = t.id => r = t
       /\ \A r, t \in store' : r.id = t.id => r = t
      ]_vars

\* a committed batch has inserted two products, one under the id its record
\* carried and one under a generated id
C23_Witness ==
    /\ Committed
    /\ Cardinality(store) = Cardinality(ing.store0) + 2
    /\ \E j, k \in 1..Len(ing.data) :
          /\ ing.data[j][1] = "" /\ ing.log[j].tag = "ok"
          /\ ing.data[k][1] # "" /\ ing.log[k].tag = "ok"
          /\ \E r, t \in store \ ing.store0 :
                /\ r.id = ing.log[j].id /\ r.name = ing.data[j][2]
                /\ t.id = ing.data[k][1] /\ t.name = ing.data[k][2]

-----------------------------------------------------------------------------
(* The cache and the transaction *)

\* the rows the table holds or has held: this invocation is the only writer
EverCommitted == store \cup ing.store0

\* C24 as claimed: every product the cache holds is a row as it is or was
\* committed in the table, and every member of the index set is the id of
\* such a row; so while the batch is not committed, and after its commit
\* failed, the cache holds nothing of it
C24_NoUncommittedInCache ==
    /\ \A id \in DOMAIN kv :
          ~Unmarshal(kv[id].val).err => Unmarshal(kv[id].val).p \in EverCommitted
    /\ \A id \in idx : \E r \in EverCommitted : r.id = id

-----------------------------------------------------------------------------
(* An upload while populateCache runs *)

\* the rows of the table that the committed batch upserted
Ingested ==
    {r \in store : \E k \in 1..Len(ing.log) :
                      ing.log[k].tag = "ok" /\ ing.data[k][2] = r.name}

\* C25 as claimed: once the batch is committed with every cache write
\* executed and no populateCache is running any more, each product of the
\* batch is cached as the table holds it, without expiration, and is a
\* member of the index set
C25_NoStaleOverwrite ==
    (Committed /\ ing.cacheErrs = 0 /\ tasks = <<>>)
        => \A r \in Ingested :
              ~Marshal(r).err
                  => /\ r.id \in DOMAIN kv
                     /\ kv[r.id] = [val |-> Marshal(r).s, ttl |-> FALSE]
                     /\ r.id \in idx

-----------------------------------------------------------------------------
(* The listing and the table *)

\* no upload and no populateCache is in progress
Quiescent == ing.pc \in {"idle", "done"} /\ tasks = <<>>

\* C26 as claimed: a listing that ends with status 200 while nothing else
\* is in progress, and whose index read is the index set as it is, holds one
\* product for every row of the table, whether it was served from the
\* cache or from the table
C26_CompleteListing ==
    [][(/\ Quiescent
        /\ rd.pc \in {"mget", "db"}
        /\ rd.pc = "mget" => SeqRange(rd.ids) = idx
        /\ rd'.pc = "done"
        /\ rd'.status = 200)
            => \A r \in store :
                  \E k \in 1..Len(rd'.products) : rd'.products[k].id = r.id
      ]_vars

=============================================================================
